---------------------------- MODULE Spec2Model ----------------------------
(***************************************************************************)
(* A model of mod_whisper.c: one ASR session (whisper_t plus the CLOSED    *)
(* and AUTO_RESUME bits of its switch_asr_handle_t), the media thread      *)
(* that runs whisper_feed and the control thread that runs every other     *)
(* entry point of the asr_interface.                                       *)
(*                                                                         *)
(* whisper_feed and whisper_close are modelled statement by statement      *)
(* (one action per access to shared state); the other entry points take    *)
(* no lock and never block, and are one action each.                       *)
(***************************************************************************)
EXTENDS Integers, Sequences, FiniteSets, TLC

VARIABLES
    closed,             \* ah->flags & SWITCH_ASR_FLAG_CLOSED
    auto_resume,        \* ah->flags & SWITCH_ASR_FLAG_AUTO_RESUME (set by the host)
    flags,              \* context->flags, as the set of ASRFLAG_ bits that are set
    result_text,        \* context->result_text
    no_input_timeout,   \* context->no_input_timeout (ms)
    speech_timeout,     \* context->speech_timeout (ms)
    start_input_timers, \* context->start_input_timers
    no_input_time,      \* context->no_input_time (microseconds)
    speech_time,        \* context->speech_time (microseconds)
    grammar,            \* context->grammar
    vad,                \* context->vad: the detector's state, or "NULL"
    audio_buffer,       \* context->audio_buffer: a sequence of runs, or "NULL"
    ws,                 \* context->ws: "open" or "NULL"
    mutex,              \* context->mutex (SWITCH_MUTEX_NESTED): owner and depth
    partial,            \* context->partial
    now,                \* switch_micro_time_now()
    mpc,                \* media thread: position inside whisper_feed
    m,                  \* media thread: locals of the running whisper_feed
    cpc,                \* control thread: position inside whisper_close
    c,                  \* control thread: locals of the running whisper_close
    hist,               \* history: final payloads delivered and (with
                        \* track) timeouts fired and the eof marker sent
                        \* since the last whisper_reset; entry points that
                        \* ran during the running whisper_feed
    obs                 \* what the last step returned, sent and touched

vars == << closed, auto_resume, flags, result_text, no_input_timeout,
           speech_timeout, start_input_timers, no_input_time, speech_time,
           grammar, vad, audio_buffer, ws, mutex, partial, now, mpc, m, cpc,
           c, hist, obs >>

(***************************************************************************)
(* Program constants.                                                      *)
(***************************************************************************)
AUDIO_BLOCK_SIZE == 3200
DefaultNoInputTimeout == 5000
DefaultSpeechTimeout == 10000
PartialCount == 3

ASRFLAGS == { "READY", "INPUT_TIMERS", "START_OF_SPEECH",
              "RETURNED_START_OF_SPEECH", "NOINPUT_TIMEOUT", "RESULT",
              "RETURNED_RESULT", "TIMEOUT" }

(***************************************************************************)
(* Bounds of the model.                                                    *)
(***************************************************************************)
MaxTicks == 1        \* the clock advances at most this many times
MaxLockDepth == 1    \* the nested mutex is locked at most this deep
MaxFinals == 1       \* context->partial is decremented to at most -MaxFinals
MaxDelivered == 2    \* final payloads counted per utterance

TickMicros == 10000 * 1000          \* one advance of the clock: 10 s
Payloads == { "hello" }             \* text payloads the backend sends
PingPayload == "ka"                 \* payload of the backend's ping frames
NoInputVals == { -1, DefaultNoInputTimeout }
SpeechVals == { 0, DefaultSpeechTimeout }

(***************************************************************************)
(* The nested mutex.  switch_mutex_lock blocks while another thread owns   *)
(* it; switch_mutex_unlock by a thread that does not own it fails (EPERM)  *)
(* and leaves it as it is.                                                 *)
(***************************************************************************)
MutexFree == [owner |-> "none", depth |-> 0]

CanLock(t) == mutex.owner \in {"none", t}

Locked(mx, t) == [owner |-> t, depth |-> mx.depth + 1]

Unlocked(mx, t) ==
    IF mx.owner # t THEN mx
    ELSE IF mx.depth = 1 THEN MutexFree
    ELSE [owner |-> t, depth |-> mx.depth - 1]

Holds(mx, t) == IF mx.owner = t THEN mx.depth ELSE 0

(***************************************************************************)
(* The audio buffer: runs <<tag, n>> of n bytes of the frame tagged tag,   *)
(* oldest first.                                                           *)
(***************************************************************************)
RECURSIVE Inuse(_)
Inuse(b) == IF b = << >> THEN 0 ELSE b[1][2] + Inuse(Tail(b))

BufferWrite(b, tag, n) ==
    IF b # << >> /\ b[Len(b)][1] = tag
    THEN [b EXCEPT ![Len(b)] = << tag, b[Len(b)][2] + n >>]
    ELSE Append(b, << tag, n >>)

\* the first n bytes of b (n <= Inuse(b))
RECURSIVE BufferHead(_, _)
BufferHead(b, n) ==
    IF n = 0 \/ b = << >> THEN << >>
    ELSE IF b[1][2] <= n THEN << b[1] >> \o BufferHead(Tail(b), n - b[1][2])
    ELSE << << b[1][1], n >> >>

\* a buffer that forgets what it does not hand out
BufferDropAll(b, n) == << >>

\* b without its first n bytes
RECURSIVE BufferDrop(_, _)
BufferDrop(b, n) ==
    IF n = 0 \/ b = << >> THEN b
    ELSE IF b[1][2] <= n THEN BufferDrop(Tail(b), n - b[1][2])
    ELSE << << b[1][1], b[1][2] - n >> >> \o Tail(b)

(***************************************************************************)
(* What a step reports: the entry point that returned (op, status; param  *)
(* for whisper_text_param), the                                            *)
(* payload whisper_get_results wrote to *resultstr, the resources the step *)
(* touched, whether it ran whisper_reset, an unlock by a thread that does  *)
(* not hold the mutex, and, when whisper_feed returns, the frames that     *)
(* call sent and the depth at which the media thread held the mutex when   *)
(* the call began.  It also reports the thread that took the step, and,    *)
(* when whisper_feed returns, result_text as it was when the call began.   *)
(* In a run that keeps the transport's history (hist.track) it reports the *)
(* call the step made on the transport (io: kws_write_frame,               *)
(* kws_wait_sock or kws_read_frame, its outcome and the frame read).       *)
(***************************************************************************)
NoFrame == [oc |-> "NONE", data |-> ""]
NoIo == [call |-> "none", res |-> "none", frame |-> NoFrame]
Io(call, res, frame) ==
    IF hist.track THEN [call |-> call, res |-> res, frame |-> frame] ELSE NoIo

NoPayload ==
    [kind |-> "none", grammar |-> "", text |-> "", confidence |-> 0,
     error |-> ""]

ObsNone == [ op |-> "none", status |-> "none", resultstr |-> NoPayload,
             access |-> {}, reset |-> FALSE, bad_unlock |-> FALSE,
             sent |-> << >>, lock0 |-> 0, flags0 |-> {},
             closed0 |-> FALSE, param |-> "", thread |-> "none",
             io |-> NoIo, text0 |-> "" ]

Returned(o, s) ==
    [ObsNone EXCEPT !.op = o, !.status = s, !.thread = "control"]

\* whisper_feed between calls.  after_fail and text0 are not locals of the
\* code: after_fail says that the call before this one was a whisper_feed
\* that ended on a transport error, text0 is result_text at the call
MIdle == [ data |-> << "-", 0 >>, vad_state |-> "NONE", caller |-> "none",
           tmp |-> {}, sent |-> << >>, lock0 |-> 0, flags0 |-> {},
           after_fail |-> FALSE, text0 |-> "" ]

CIdle == [closed0 |-> FALSE]

\* the history after an entry point of the control thread ran
Seen(op) ==
    IF mpc = "idle" THEN hist.ops
    ELSE IF hist.ops = << >> THEN << op >> ELSE << "many" >>

HistCtl(op) == hist' = [hist EXCEPT !.ops = Seen(op)]

(***************************************************************************)
(* whisper_reset                                                           *)
(***************************************************************************)
ResetFlagsArmed(sit) == {"READY", "INPUT_TIMERS"}

ResetFlags(sit) == {"READY"} \cup (IF sit THEN {"INPUT_TIMERS"} ELSE {})

whisper_reset ==
    /\ vad' = IF vad # "NULL" THEN "NONE" ELSE vad
    /\ flags' = ResetFlags(start_input_timers)
    /\ result_text' = "agent"
    /\ no_input_time' = now

(***************************************************************************)
(* whisper_open has run: Session is the session it returns.  With track    *)
(* the run keeps the history of the timeouts that fired and of the calls   *)
(* made on the transport; Init keeps none.                                 *)
(***************************************************************************)
Session(track) ==
    /\ closed = FALSE
    /\ auto_resume \in BOOLEAN
    /\ flags = ResetFlags(TRUE)
    /\ result_text = "agent"
    /\ no_input_timeout = DefaultNoInputTimeout
    /\ speech_timeout = DefaultSpeechTimeout
    /\ start_input_timers = TRUE
    /\ no_input_time = 0
    /\ speech_time = 0
    /\ grammar = "NULL"
    /\ vad = "NONE"
    /\ audio_buffer = << >>
    /\ ws = "open"
    /\ mutex = MutexFree
    /\ partial = 0
    /\ now = 0
    /\ mpc = "idle"
    /\ m = MIdle
    /\ cpc = "idle"
    /\ c = CIdle
    /\ hist = [finals |-> 0, ops |-> << >>, fired |-> {}, eof |-> FALSE,
               track |-> track]
    /\ obs = ObsNone

Init == Session(FALSE)

InitHist == Session(TRUE)


(***************************************************************************)
(* Entry points of the control thread that take no lock.  Each is called   *)
(* while the control thread is not inside whisper_close.                   *)
(***************************************************************************)
ElapsedMs(since) == (now - since) \div 1000

\* whisper_load_grammar
whisper_load_grammar ==
    /\ cpc = "idle"
    /\ HistCtl("load_grammar")
    /\ IF closed
       THEN /\ obs' = Returned("load_grammar", "FALSE")
            /\ UNCHANGED grammar
       ELSE /\ grammar' = "g"
            /\ obs' = Returned("load_grammar", "SUCCESS")
    /\ UNCHANGED << closed, auto_resume, flags, result_text, no_input_timeout,
                    speech_timeout, start_input_timers, no_input_time,
                    speech_time, vad, audio_buffer, ws, mutex, partial, now,
                    mpc, m, cpc, c >>

\* whisper_pause
whisper_pause ==
    /\ cpc = "idle"
    /\ HistCtl("pause")
    /\ IF closed
       THEN /\ obs' = Returned("pause", "FALSE")
            /\ UNCHANGED flags
       ELSE /\ flags' = {}
            /\ obs' = Returned("pause", "SUCCESS")
    /\ UNCHANGED << closed, auto_resume, result_text, no_input_timeout,
                    speech_timeout, start_input_timers, no_input_time,
                    speech_time, grammar, vad, audio_buffer, ws, mutex,
                    partial, now, mpc, m, cpc, c >>

\* whisper_resume
whisper_resume ==
    /\ cpc = "idle"
    /\ IF closed
       THEN /\ obs' = Returned("resume", "FALSE")
            /\ HistCtl("resume")
            /\ UNCHANGED << vad, flags, result_text, no_input_time >>
       ELSE /\ whisper_reset
            /\ hist' = [hist EXCEPT !.finals = 0, !.ops = Seen("resume"),
                                    !.fired = {}, !.eof = FALSE]
            /\ obs' = [Returned("resume", "SUCCESS") EXCEPT
                          !.reset = TRUE, !.access = {"vad"}]
    /\ UNCHANGED << closed, auto_resume, no_input_timeout, speech_timeout,
                    start_input_timers, speech_time, grammar, audio_buffer,
                    ws, mutex, partial, now, mpc, m, cpc, c >>

NoInputExpiredUnguarded(f) ==
    /\ "INPUT_TIMERS" \in f
    /\ "START_OF_SPEECH" \notin f
    /\ ElapsedMs(no_input_time) >= no_input_timeout

\* whisper_check_results, lines 457-459: the no-input clock has run out
NoInputExpired(f) ==
    /\ "INPUT_TIMERS" \in f
    /\ "START_OF_SPEECH" \notin f
    /\ no_input_timeout >= 0
    /\ ElapsedMs(no_input_time) >= no_input_timeout

\* whisper_check_results, line 462: the speech clock has run out
SpeechExpired(f) ==
    /\ "TIMEOUT" \notin f
    /\ "START_OF_SPEECH" \in f
    /\ speech_timeout > 0
    /\ ElapsedMs(speech_time) >= speech_timeout

\* whisper_check_results on the flag set f: the flags it leaves and its status
CheckResults(f) ==
    IF "RETURNED_RESULT" \in f \/ closed
    THEN [flags |-> f, status |-> "BREAK"]
    ELSE IF "RETURNED_START_OF_SPEECH" \notin f /\ "START_OF_SPEECH" \in f
    THEN [flags |-> f, status |-> "SUCCESS"]
    ELSE IF "RESULT" \notin f /\ "NOINPUT_TIMEOUT" \notin f /\ NoInputExpired(f)
    THEN [flags |-> f \cup {"NOINPUT_TIMEOUT"}, status |-> "SUCCESS"]
    ELSE IF "RESULT" \notin f /\ "NOINPUT_TIMEOUT" \notin f /\ SpeechExpired(f)
    THEN IF "START_OF_SPEECH" \in f
         THEN [flags |-> f \cup {"TIMEOUT"}, status |-> "FALSE"]
         ELSE [flags |-> f \cup {"NOINPUT_TIMEOUT"}, status |-> "SUCCESS"]
    ELSE [flags |-> f,
          status |-> IF "RESULT" \in f \/ "NOINPUT_TIMEOUT" \in f
                     THEN "SUCCESS" ELSE "BREAK"]

whisper_check_results ==
    /\ cpc = "idle"
    /\ hist' = [hist EXCEPT
                   !.ops = Seen("check_results"),
                   !.fired = IF hist.track
                             THEN hist.fired \cup
                                  (CheckResults(flags).flags \ flags)
                             ELSE {}]
    /\ flags' = CheckResults(flags).flags
    /\ obs' = Returned("check_results", CheckResults(flags).status)
    /\ UNCHANGED << closed, auto_resume, result_text, no_input_timeout,
                    speech_timeout, start_input_timers, no_input_time,
                    speech_time, grammar, vad, audio_buffer, ws, mutex,
                    partial, now, mpc, m, cpc, c >>

\* the payloads whisper_get_results formats (lines 489 and 501)
ResultConfidence == 873       \* result_confidence = 87.3, in tenths

ResultPayload ==
    [kind |-> "result", grammar |-> grammar, text |-> result_text,
     confidence |-> ResultConfidence, error |-> ""]

NoInputPayload ==
    [kind |-> "no_input", grammar |-> grammar, text |-> "",
     confidence |-> 0, error |-> "no_input"]

DeliveredKeepsReady(f, status) ==
    IF status = "SUCCESS" THEN f \cup {"RETURNED_RESULT"} ELSE f

\* whisper_get_results, lines 513-516
Delivered(f, status) ==
    IF status = "SUCCESS" THEN (f \cup {"RETURNED_RESULT"}) \ {"READY"} ELSE f

\* is_partial, line 487
IsPartialInclusive(p) == p >= 0

IsPartial(p) == p > 0

\* whisper_get_results with context->partial-- ahead of the tests
GetResultsCountsFirst(f, p) ==
    IF "RETURNED_RESULT" \in f \/ closed
    THEN [flags |-> f, partial |-> p - 1, status |-> "FALSE",
          resultstr |-> NoPayload]
    ELSE IF "RESULT" \in f
    THEN LET st == IF IsPartial(p) THEN "MORE_DATA" ELSE "SUCCESS"
         IN  [flags |-> Delivered(f, st), partial |-> p - 1, status |-> st,
              resultstr |-> ResultPayload]
    ELSE IF "NOINPUT_TIMEOUT" \in f
    THEN [flags |-> Delivered(f, "SUCCESS"), partial |-> p - 1,
          status |-> "SUCCESS", resultstr |-> NoInputPayload]
    ELSE IF "RETURNED_START_OF_SPEECH" \notin f /\ "START_OF_SPEECH" \in f
    THEN [flags |-> f \cup {"RETURNED_START_OF_SPEECH"}, partial |-> p - 1,
          status |-> "BREAK", resultstr |-> NoPayload]
    ELSE [flags |-> f, partial |-> p - 1, status |-> "FALSE",
          resultstr |-> NoPayload]

\* whisper_get_results on the flag set f and the counter p
GetResults(f, p) ==
    IF "RETURNED_RESULT" \in f \/ closed
    THEN [flags |-> f, partial |-> p, status |-> "FALSE",
          resultstr |-> NoPayload]
    ELSE IF "RESULT" \in f
    THEN LET st == IF IsPartial(p) THEN "MORE_DATA" ELSE "SUCCESS"
         IN  [flags |-> Delivered(f, st), partial |-> p - 1, status |-> st,
              resultstr |-> ResultPayload]
    ELSE IF "NOINPUT_TIMEOUT" \in f
    THEN [flags |-> Delivered(f, "SUCCESS"), partial |-> p,
          status |-> "SUCCESS", resultstr |-> NoInputPayload]
    ELSE IF "RETURNED_START_OF_SPEECH" \notin f /\ "START_OF_SPEECH" \in f
    THEN [flags |-> f \cup {"RETURNED_START_OF_SPEECH"}, partial |-> p,
          status |-> "BREAK", resultstr |-> NoPayload]
    ELSE [flags |-> f, partial |-> p, status |-> "FALSE",
          resultstr |-> NoPayload]

whisper_get_results ==
    /\ cpc = "idle"
    /\ GetResults(flags, partial).partial >= -MaxFinals
    /\ GetResults(flags, partial).status = "SUCCESS" => hist.finals < MaxDelivered
    /\ hist' = [hist EXCEPT
                   !.finals = IF GetResults(flags, partial).status = "SUCCESS"
                              THEN hist.finals + 1 ELSE hist.finals,
                   !.ops = Seen("get_results")]
    /\ flags' = GetResults(flags, partial).flags
    /\ partial' = GetResults(flags, partial).partial
    /\ obs' = [Returned("get_results", GetResults(flags, partial).status)
                  EXCEPT !.resultstr = GetResults(flags, partial).resultstr]
    /\ UNCHANGED << closed, auto_resume, result_text, no_input_timeout,
                    speech_timeout, start_input_timers, no_input_time,
                    speech_time, grammar, vad, audio_buffer, ws, mutex, now,
                    mpc, m, cpc, c >>

\* whisper_start_input_timers
whisper_start_input_timers ==
    /\ cpc = "idle"
    /\ HistCtl("start_input_timers")
    /\ IF closed
       THEN /\ obs' = Returned("start_input_timers", "FALSE")
            /\ UNCHANGED << flags, no_input_time >>
       ELSE /\ IF "INPUT_TIMERS" \notin flags
               THEN /\ flags' = flags \cup {"INPUT_TIMERS"}
                    /\ no_input_time' = now
               ELSE UNCHANGED << flags, no_input_time >>
            /\ obs' = Returned("start_input_timers", "SUCCESS")
    /\ UNCHANGED << closed, auto_resume, result_text, no_input_timeout,
                    speech_timeout, start_input_timers, speech_time, grammar,
                    vad, audio_buffer, ws, mutex, partial, now, mpc, m, cpc, c >>

(***************************************************************************)
(* whisper_text_param, one action per recognised parameter.  It returns    *)
(* nothing and does not test SWITCH_ASR_FLAG_CLOSED.  channel-uuid and     *)
(* confidence only change what is logged and formatted and are left out.   *)
(***************************************************************************)
text_param_no_input_timeout ==
    /\ cpc = "idle"
    /\ HistCtl("text_param_no_input_timeout")
    /\ \E nval \in NoInputVals : no_input_timeout' = nval
    /\ obs' = [Returned("text_param", "void") EXCEPT
                  !.param = "no-input-timeout"]
    /\ UNCHANGED << closed, auto_resume, flags, result_text, speech_timeout,
                    start_input_timers, no_input_time, speech_time, grammar,
                    vad, audio_buffer, ws, mutex, partial, now, mpc, m, cpc, c >>

text_param_speech_timeout ==
    /\ cpc = "idle"
    /\ HistCtl("text_param_speech_timeout")
    /\ \E nval \in SpeechVals : speech_timeout' = nval
    /\ obs' = [Returned("text_param", "void") EXCEPT
                  !.param = "speech-timeout"]
    /\ UNCHANGED << closed, auto_resume, flags, result_text, no_input_timeout,
                    start_input_timers, no_input_time, speech_time, grammar,
                    vad, audio_buffer, ws, mutex, partial, now, mpc, m, cpc, c >>

text_param_start_input_timers ==
    /\ cpc = "idle"
    /\ HistCtl("text_param_start_input_timers")
    /\ \E val \in BOOLEAN :
          /\ start_input_timers' = val
          /\ flags' = IF val THEN flags \cup {"INPUT_TIMERS"}
                             ELSE flags \ {"INPUT_TIMERS"}
    /\ obs' = [Returned("text_param", "void") EXCEPT
                  !.param = "start-input-timers"]
    /\ UNCHANGED << closed, auto_resume, result_text, no_input_timeout,
                    speech_timeout, no_input_time, speech_time, grammar, vad,
                    audio_buffer, ws, mutex, partial, now, mpc, m, cpc, c >>

\* vad-voice-ms, vad-silence-ms, vad-thresh: switch_vad_set_param on
\* context->vad, whatever the state of the session
text_param_vad ==
    /\ cpc = "idle"
    /\ HistCtl("text_param_vad")
    /\ obs' = [Returned("text_param", "void") EXCEPT
                  !.access = {"vad"}, !.param = "vad"]
    /\ UNCHANGED << closed, auto_resume, flags, result_text, no_input_timeout,
                    speech_timeout, start_input_timers, no_input_time,
                    speech_time, grammar, vad, audio_buffer, ws, mutex,
                    partial, now, mpc, m, cpc, c >>

text_param_result ==
    /\ cpc = "idle"
    /\ HistCtl("text_param_result")
    /\ result_text' = "override"
    /\ obs' = [Returned("text_param", "void") EXCEPT !.param = "result"]
    /\ UNCHANGED << closed, auto_resume, flags, no_input_timeout,
                    speech_timeout, start_input_timers, no_input_time,
                    speech_time, grammar, vad, audio_buffer, ws, mutex,
                    partial, now, mpc, m, cpc, c >>

text_param_partial ==
    /\ cpc = "idle"
    /\ HistCtl("text_param_partial")
    /\ \E val \in BOOLEAN :
          /\ partial' = IF val THEN PartialCount ELSE partial
          /\ obs' = [Returned("text_param", "void") EXCEPT
                        !.param = IF val THEN "partial=true"
                                         ELSE "partial=false"]
    /\ UNCHANGED << closed, auto_resume, flags, result_text, no_input_timeout,
                    speech_timeout, start_input_timers, no_input_time,
                    speech_time, grammar, vad, audio_buffer, ws, mutex, now,
                    mpc, m, cpc, c >>

\* the clock advances
Tick ==
    /\ now < MaxTicks * TickMicros
    /\ now' = now + TickMicros
    /\ obs' = ObsNone
    /\ UNCHANGED << closed, auto_resume, flags, result_text, no_input_timeout,
                    speech_timeout, start_input_timers, no_input_time,
                    speech_time, grammar, vad, audio_buffer, ws, mutex,
                    partial, mpc, m, cpc, c, hist >>


(***************************************************************************)
(* The frames of the transport.                                            *)
(***************************************************************************)
\* <<tag, len>>: the data and the len of a call of whisper_feed
Frames == { << "a", 1600 >>, << "b", 3200 >> }
BlockFrames == { << "b", 3200 >> }

EofFrame == [oc |-> "TEXT", data |-> "eof"]
BinaryFrame(block) == [oc |-> "BINARY", data |-> block]
\* a pong that carries no payload
PongEmpty(rdata) == [oc |-> "PONG", data |-> ""]

PongFrame(rdata) == [oc |-> "PONG", data |-> rdata]

\* what kws_read_frame returns: a frame of the backend, or rlen < 0
InFrames == { [oc |-> "TEXT", data |-> p] : p \in Payloads }
            \cup { [oc |-> "PING", data |-> PingPayload] }
ReadError == [oc |-> "ERROR", data |-> ""]
ReadResults == InFrames \cup { ReadError }
TextReads == { r \in ReadResults : r.oc # "PING" }

\* what kws_wait_sock returns
PollResults == { "READ", "TIMEOUT", "ERROR" }

\* the timeouts whisper_feed passes to kws_wait_sock (lines 279 and 362)
HandshakeWaitMs == 60000
FeedPollMs == 5

WaitResultsUnbounded(ms) == PollResults \ { "TIMEOUT" }

\* kws_wait_sock(ws, ms, ...): with ms >= 0 the wait ends after ms with
\* nothing to read; a negative ms waits until the socket has something
WaitResults(ms) == IF ms >= 0 THEN PollResults ELSE PollResults \ { "TIMEOUT" }

\* the outcome of a wait, as obs.io reports it
WaitRes(poll_result) ==
    CASE poll_result = "READ" -> "ok"
      [] poll_result = "TIMEOUT" -> "timeout"
      [] poll_result = "ERROR" -> "error"

(***************************************************************************)
(* switch_vad_process (FreeSWITCH core): the verdicts the detector can     *)
(* return from each of its states.                                         *)
(***************************************************************************)
VadVerdicts(v) ==
    CASE v = "NONE" -> { "NONE", "START_TALKING" }
      [] v = "START_TALKING" -> { "TALKING" }
      [] v = "TALKING" -> { "TALKING", "STOP_TALKING" }
      [] v = "STOP_TALKING" -> { "NONE", "START_TALKING" }

(***************************************************************************)
(* whisper_feed on the media thread.                                       *)
(***************************************************************************)
\* an inner step of the running call: it touched acc
StepIo(pc, acc, bad, io) ==
    /\ mpc' = pc
    /\ obs' = [ObsNone EXCEPT !.access = acc, !.bad_unlock = bad,
                              !.thread = "media", !.io = io]

Step(pc, acc, bad) == StepIo(pc, acc, bad, NoIo)

\* the call returns st, having sent the frames snt
FeedReturnIo(st, snt, acc, bad, io) ==
    /\ mpc' = "idle"
    /\ m' = MIdle
    /\ obs' = [Returned("feed", st) EXCEPT
                  !.access = acc, !.bad_unlock = bad, !.sent = snt,
                  !.lock0 = m.lock0, !.flags0 = m.flags0,
                  !.text0 = m.text0, !.thread = "media", !.io = io]

FeedReturn(st, snt, acc, bad) == FeedReturnIo(st, snt, acc, bad, NoIo)

\* switch_mutex_unlock(context->mutex) by the media thread
MediaUnlock == mutex' = Unlocked(mutex, "media")
BadUnlock == Holds(mutex, "media") = 0

\* line 314
feed_enter(frames) ==
    /\ mpc = "idle"
    /\ hist' = [hist EXCEPT !.ops = << >>]
    /\ \E data \in frames :
          IF closed
          THEN /\ obs' = [Returned("feed", "BREAK") EXCEPT
                             !.lock0 = Holds(mutex, "media"),
                             !.flags0 = flags, !.text0 = result_text,
                             !.thread = "media"]
               /\ UNCHANGED << mpc, m >>
          ELSE /\ mpc' = "auto"
               /\ m' = [MIdle EXCEPT
                          !.data = data,
                          !.lock0 = Holds(mutex, "media"),
                          !.flags0 = flags,
                          !.text0 = result_text,
                          !.after_fail = (obs.op = "feed"
                                          /\ obs.io.res = "error")]
               /\ obs' = [ObsNone EXCEPT !.thread = "media"]
    /\ UNCHANGED << closed, auto_resume, flags, result_text, no_input_timeout,
                    speech_timeout, start_input_timers, no_input_time,
                    speech_time, grammar, vad, audio_buffer, ws, mutex,
                    partial, now, cpc, c >>

\* lines 318-321
feed_auto_resume ==
    /\ mpc = "auto"
    /\ IF "RETURNED_RESULT" \in flags /\ auto_resume
       THEN /\ whisper_reset
            /\ hist' = [hist EXCEPT !.finals = 0, !.fired = {},
                                    !.eof = FALSE]
            /\ obs' = [ObsNone EXCEPT !.reset = TRUE, !.access = {"vad"},
                                      !.thread = "media"]
       ELSE /\ obs' = [ObsNone EXCEPT !.thread = "media"]
            /\ UNCHANGED << vad, flags, result_text, no_input_time, hist >>
    /\ mpc' = "tmo"
    /\ UNCHANGED << closed, auto_resume, no_input_timeout, speech_timeout,
                    start_input_timers, speech_time, grammar, audio_buffer,
                    ws, mutex, partial, now, m, cpc, c >>

\* line 323
feed_test_timeout ==
    /\ mpc = "tmo"
    /\ IF "TIMEOUT" \in flags
       THEN /\ m' = [m EXCEPT !.caller = "tmo"]
            /\ Step("sfb_write", {}, FALSE)
       ELSE /\ Step("ready", {}, FALSE)
            /\ UNCHANGED m
    /\ UNCHANGED << closed, auto_resume, flags, result_text, no_input_timeout,
                    speech_timeout, start_input_timers, no_input_time,
                    speech_time, grammar, vad, audio_buffer, ws, mutex,
                    partial, now, cpc, c, hist >>

(***************************************************************************)
(* whisper_send_final_bit, called from whisper_feed on a pending speech    *)
(* timeout (caller "tmo") and on STOP_TALKING (caller "stop").  A status   *)
(* other than SUCCESS makes whisper_feed return BREAK (lines 329, 393).    *)
(***************************************************************************)
\* lines 270-275
sfb_write ==
    /\ mpc = "sfb_write"
    /\ \E ok \in BOOLEAN :
          IF ok
          THEN /\ m' = [m EXCEPT !.sent = Append(m.sent, EofFrame)]
               /\ hist' = [hist EXCEPT !.eof = hist.track]
               /\ StepIo("sfb_wait", {"ws"}, FALSE, Io("write", "ok", NoFrame))
               /\ UNCHANGED mutex
          ELSE /\ MediaUnlock
               /\ FeedReturnIo("BREAK", m.sent, {"ws"}, BadUnlock,
                               Io("write", "error", NoFrame))
               /\ UNCHANGED hist
    /\ UNCHANGED << closed, auto_resume, flags, result_text, no_input_timeout,
                    speech_timeout, start_input_timers, no_input_time,
                    speech_time, grammar, vad, audio_buffer, ws, partial,
                    now, cpc, c >>

\* lines 279-285
sfb_wait ==
    /\ mpc = "sfb_wait"
    /\ \E poll_result \in WaitResults(HandshakeWaitMs) :
          IF poll_result = "READ"
          THEN /\ StepIo("sfb_read", {"ws"}, FALSE, Io("wait", "ok", NoFrame))
               /\ UNCHANGED << mutex, m >>
          ELSE /\ MediaUnlock
               /\ FeedReturnIo("BREAK", m.sent, {"ws"}, BadUnlock,
                               Io("wait", WaitRes(poll_result), NoFrame))
    /\ UNCHANGED << closed, auto_resume, flags, result_text, no_input_timeout,
                    speech_timeout, start_input_timers, no_input_time,
                    speech_time, grammar, vad, audio_buffer, ws, partial,
                    now, cpc, c, hist >>

\* lines 287-301
sfb_read(reads) ==
    /\ mpc = "sfb_read"
    /\ \E r \in reads :
          IF r.oc = "ERROR"
          THEN /\ MediaUnlock
               /\ FeedReturnIo("BREAK", m.sent, {"ws"}, BadUnlock,
                               Io("read", "error", NoFrame))
               /\ UNCHANGED result_text
          ELSE /\ result_text' = r.data
               /\ MediaUnlock
               /\ StepIo(IF m.caller = "tmo" THEN "tmo_set" ELSE "stop_set",
                         {"ws"}, BadUnlock, Io("read", "ok", r))
               /\ UNCHANGED m
    /\ UNCHANGED << closed, auto_resume, flags, no_input_timeout,
                    speech_timeout, start_input_timers, no_input_time,
                    speech_time, grammar, vad, audio_buffer, ws, partial,
                    now, cpc, c, hist >>

(***************************************************************************)
(* switch_set_flag and switch_clear_flag are a load of context->flags      *)
(* followed by a store: whisper_feed takes no lock around them.            *)
(***************************************************************************)
LoadPcs == { "tmo_set", "tmo_clr", "stop_set", "stop_clr", "start_set" }

StorePc(pc) ==
    CASE pc = "tmo_set" -> "tmo_set_st"
      [] pc = "tmo_clr" -> "tmo_clr_st"
      [] pc = "stop_set" -> "stop_set_st"
      [] pc = "stop_clr" -> "stop_clr_st"
      [] pc = "start_set" -> "start_set_st"

feed_load_flags ==
    /\ mpc \in LoadPcs
    /\ m' = [m EXCEPT !.tmp = flags]
    /\ Step(StorePc(mpc), {}, FALSE)
    /\ UNCHANGED << closed, auto_resume, flags, result_text, no_input_timeout,
                    speech_timeout, start_input_timers, no_input_time,
                    speech_time, grammar, vad, audio_buffer, ws, mutex,
                    partial, now, cpc, c, hist >>

\* lines 334-335: switch_set_flag(RESULT); switch_vad_reset
feed_tmo_set_result ==
    /\ mpc = "tmo_set_st"
    /\ flags' = m.tmp \cup {"RESULT"}
    /\ vad' = "NONE"
    /\ Step("tmo_clr", {"vad"}, FALSE)
    /\ UNCHANGED << closed, auto_resume, result_text, no_input_timeout,
                    speech_timeout, start_input_timers, no_input_time,
                    speech_time, grammar, audio_buffer, ws, mutex, partial,
                    now, m, cpc, c, hist >>

feed_tmo_keep_timeout ==
    /\ mpc = "tmo_clr_st"
    /\ flags' = m.tmp
    /\ Step("ready", {}, FALSE)
    /\ UNCHANGED << closed, auto_resume, result_text, no_input_timeout,
                    speech_timeout, start_input_timers, no_input_time,
                    speech_time, grammar, vad, audio_buffer, ws, mutex,
                    partial, now, m, cpc, c, hist >>

\* line 336: switch_clear_flag(TIMEOUT)
feed_tmo_clear_timeout ==
    /\ mpc = "tmo_clr_st"
    /\ flags' = m.tmp \ {"TIMEOUT"}
    /\ Step("ready", {}, FALSE)
    /\ UNCHANGED << closed, auto_resume, result_text, no_input_timeout,
                    speech_timeout, start_input_timers, no_input_time,
                    speech_time, grammar, vad, audio_buffer, ws, mutex,
                    partial, now, m, cpc, c, hist >>

\* lines 340-342 and the branch on vad_state
feed_vad_process ==
    /\ mpc = "ready"
    /\ IF "READY" \notin flags
       THEN /\ FeedReturn("SUCCESS", m.sent, {}, FALSE)
            /\ UNCHANGED vad
       ELSE \E vad_state \in VadVerdicts(vad) :
               /\ vad' = vad_state
               /\ CASE vad_state = "TALKING" ->
                         /\ m' = [m EXCEPT !.vad_state = vad_state]
                         /\ Step("t_lock", {"vad"}, FALSE)
                    [] vad_state = "STOP_TALKING" ->
                         /\ m' = [m EXCEPT !.vad_state = vad_state,
                                           !.caller = "stop"]
                         /\ Step("sfb_write", {"vad"}, FALSE)
                    [] vad_state = "START_TALKING" ->
                         /\ m' = [m EXCEPT !.vad_state = vad_state]
                         /\ Step("start_set", {"vad"}, FALSE)
                    [] vad_state = "NONE" ->
                         FeedReturn("SUCCESS", m.sent, {"vad"}, FALSE)
    /\ UNCHANGED << closed, auto_resume, flags, result_text, no_input_timeout,
                    speech_timeout, start_input_timers, no_input_time,
                    speech_time, grammar, audio_buffer, ws, mutex, partial,
                    now, cpc, c, hist >>

\* line 348
feed_lock ==
    /\ mpc = "t_lock"
    /\ CanLock("media")
    /\ mutex.depth < MaxLockDepth
    /\ mutex' = Locked(mutex, "media")
    /\ Step("t_buf", {}, FALSE)
    /\ UNCHANGED << closed, auto_resume, flags, result_text, no_input_timeout,
                    speech_timeout, start_input_timers, no_input_time,
                    speech_time, grammar, vad, audio_buffer, ws, partial,
                    now, m, cpc, c, hist >>

\* lines 349-360.  With the buffer destroyed by whisper_close the write and
\* the read are undefined; the model leaves the buffer NULL and sends nothing.
feed_buffer ==
    /\ mpc = "t_buf"
    /\ IF audio_buffer = "NULL"
       THEN /\ Step("t_poll", {"buf"}, FALSE)
            /\ UNCHANGED << audio_buffer, mutex, m >>
       ELSE LET written == BufferWrite(audio_buffer, m.data[1], m.data[2])
            IN  IF Inuse(written) > AUDIO_BLOCK_SIZE
                THEN /\ audio_buffer' = BufferDrop(written, AUDIO_BLOCK_SIZE)
                     /\ \E ok \in BOOLEAN :
                           IF ok
                           THEN /\ m' = [m EXCEPT !.sent = Append(m.sent,
                                           BinaryFrame(BufferHead(written,
                                                       AUDIO_BLOCK_SIZE)))]
                                /\ StepIo("t_poll", {"buf", "ws"}, FALSE,
                                          Io("write", "ok", NoFrame))
                                /\ UNCHANGED mutex
                           ELSE /\ MediaUnlock
                                /\ FeedReturnIo("BREAK", m.sent,
                                                {"buf", "ws"}, BadUnlock,
                                                Io("write", "error", NoFrame))
                ELSE /\ audio_buffer' = written
                     /\ Step("t_poll", {"buf"}, FALSE)
                     /\ UNCHANGED << mutex, m >>
    /\ UNCHANGED << closed, auto_resume, flags, result_text, no_input_timeout,
                    speech_timeout, start_input_timers, no_input_time,
                    speech_time, grammar, vad, ws, partial, now, cpc, c, hist >>

\* lines 362-367
feed_poll ==
    /\ mpc = "t_poll"
    /\ \E poll_result \in WaitResults(FeedPollMs) :
          IF poll_result = "READ"
          THEN /\ StepIo("t_read", {"ws"}, FALSE, Io("wait", "ok", NoFrame))
               /\ UNCHANGED << mutex, m >>
          ELSE /\ MediaUnlock
               /\ FeedReturnIo("SUCCESS", m.sent, {"ws"}, BadUnlock,
                               Io("wait", WaitRes(poll_result), NoFrame))
    /\ UNCHANGED << closed, auto_resume, flags, result_text, no_input_timeout,
                    speech_timeout, start_input_timers, no_input_time,
                    speech_time, grammar, vad, audio_buffer, ws, partial,
                    now, cpc, c, hist >>

\* lines 369-386; vad_state is TALKING, so lines 388-406 do nothing and the
\* call returns status (line 410)
feed_read(reads) ==
    /\ mpc = "t_read"
    /\ \E r \in reads :
          CASE r.oc = "ERROR" ->
                 /\ MediaUnlock
                 /\ FeedReturnIo("BREAK", m.sent, {"ws"}, BadUnlock,
                                 Io("read", "error", NoFrame))
                 /\ UNCHANGED result_text
            [] r.oc = "PING" ->
                 /\ MediaUnlock
                 /\ FeedReturnIo("SUCCESS", Append(m.sent, PongFrame(r.data)),
                                 {"ws"}, BadUnlock, Io("read", "ok", r))
                 /\ UNCHANGED result_text
            [] OTHER ->
                 /\ result_text' = r.data
                 /\ FeedReturnIo("SUCCESS", m.sent, {"ws"}, FALSE,
                                 Io("read", "ok", r))
                 /\ UNCHANGED mutex
    /\ UNCHANGED << closed, auto_resume, flags, no_input_timeout,
                    speech_timeout, start_input_timers, no_input_time,
                    speech_time, grammar, vad, audio_buffer, ws, partial,
                    now, cpc, c, hist >>

\* lines 398-399: switch_set_flag(RESULT); switch_vad_reset
feed_stop_set_result ==
    /\ mpc = "stop_set_st"
    /\ flags' = m.tmp \cup {"RESULT"}
    /\ vad' = "NONE"
    /\ Step("stop_clr", {"vad"}, FALSE)
    /\ UNCHANGED << closed, auto_resume, result_text, no_input_timeout,
                    speech_timeout, start_input_timers, no_input_time,
                    speech_time, grammar, audio_buffer, ws, mutex, partial,
                    now, m, cpc, c, hist >>

\* line 400: switch_clear_flag(READY), then return status
feed_stop_clear_ready ==
    /\ mpc = "stop_clr_st"
    /\ flags' = m.tmp \ {"READY"}
    /\ FeedReturn("SUCCESS", m.sent, {}, FALSE)
    /\ UNCHANGED << closed, auto_resume, result_text, no_input_timeout,
                    speech_timeout, start_input_timers, no_input_time,
                    speech_time, grammar, vad, audio_buffer, ws, mutex,
                    partial, now, cpc, c, hist >>

\* lines 404-405, then return status
feed_start_of_speech ==
    /\ mpc = "start_set_st"
    /\ flags' = m.tmp \cup {"START_OF_SPEECH"}
    /\ speech_time' = now
    /\ FeedReturn("SUCCESS", m.sent, {}, FALSE)
    /\ UNCHANGED << closed, auto_resume, result_text, no_input_timeout,
                    speech_timeout, start_input_timers, no_input_time,
                    grammar, vad, audio_buffer, ws, mutex, partial, now,
                    cpc, c, hist >>

(***************************************************************************)
(* whisper_close on the control thread.                                    *)
(***************************************************************************)
CStep(pc, acc) ==
    /\ cpc' = pc
    /\ obs' = [ObsNone EXCEPT !.access = acc, !.thread = "control"]

\* line 228: the call begins by taking the mutex; c.closed0 records whether
\* the session was closed already when it was called
close_lock ==
    /\ HistCtl("close")
    /\ cpc = "idle"
    /\ CanLock("control")
    /\ mutex' = Locked(mutex, "control")
    /\ c' = [closed0 |-> closed]
    /\ CStep("c_ws", {})
    /\ UNCHANGED << closed, auto_resume, flags, result_text, no_input_timeout,
                    speech_timeout, start_input_timers, no_input_time,
                    speech_time, grammar, vad, audio_buffer, ws, partial,
                    now, mpc, m >>

\* lines 232-233: kws_close, kws_destroy
close_ws ==
    /\ HistCtl("close")
    /\ cpc = "c_ws"
    /\ ws' = "NULL"
    /\ CStep("c_buf", {"ws"})
    /\ UNCHANGED << closed, auto_resume, flags, result_text, no_input_timeout,
                    speech_timeout, start_input_timers, no_input_time,
                    speech_time, grammar, vad, audio_buffer, mutex, partial,
                    now, mpc, m, c >>

\* lines 235-236: switch_set_flag(ah, CLOSED), switch_buffer_destroy
close_buffer ==
    /\ HistCtl("close")
    /\ cpc = "c_buf"
    /\ closed' = TRUE
    /\ audio_buffer' = "NULL"
    /\ CStep("c_unlock", {"buf"})
    /\ UNCHANGED << auto_resume, flags, result_text, no_input_timeout,
                    speech_timeout, start_input_timers, no_input_time,
                    speech_time, grammar, vad, ws, mutex, partial, now, mpc,
                    m, c >>

\* line 237
close_unlock ==
    /\ HistCtl("close")
    /\ cpc = "c_unlock"
    /\ mutex' = Unlocked(mutex, "control")
    /\ CStep("c_check", {})
    /\ UNCHANGED << closed, auto_resume, flags, result_text, no_input_timeout,
                    speech_timeout, start_input_timers, no_input_time,
                    speech_time, grammar, vad, audio_buffer, ws, partial,
                    now, mpc, m, c >>

\* lines 240-252
close_return ==
    /\ HistCtl("close")
    /\ cpc = "c_check"
    /\ IF closed
       THEN /\ obs' = [Returned("close", "FALSE") EXCEPT
                             !.closed0 = c.closed0]
            /\ UNCHANGED << vad, closed >>
       ELSE /\ vad' = "NULL"
            /\ closed' = TRUE
            /\ obs' = [Returned("close", "SUCCESS") EXCEPT
                             !.access = {"vad"}, !.closed0 = c.closed0]
    /\ cpc' = "idle"
    /\ c' = CIdle
    /\ UNCHANGED << auto_resume, flags, result_text, no_input_timeout,
                    speech_timeout, start_input_timers, no_input_time,
                    speech_time, grammar, audio_buffer, ws, mutex, partial,
                    now, mpc, m >>

(***************************************************************************)
(* The host calls the entry points one at a time: a call begins when no    *)
(* other call is running.  It feeds frames of 3200 bytes, and the backend  *)
(* sends text frames.                                                      *)
(***************************************************************************)
Call(A) == mpc = "idle" /\ cpc = "idle" /\ A

Next ==
    \/ Call(feed_enter(BlockFrames))
    \/ feed_auto_resume
    \/ feed_test_timeout
    \/ sfb_write
    \/ sfb_wait
    \/ sfb_read(TextReads)
    \/ feed_load_flags
    \/ feed_tmo_set_result
    \/ feed_tmo_clear_timeout
    \/ feed_vad_process
    \/ feed_lock
    \/ feed_buffer
    \/ feed_poll
    \/ feed_read(TextReads)
    \/ feed_stop_set_result
    \/ feed_stop_clear_ready
    \/ feed_start_of_speech
    \/ Call(whisper_pause)
    \/ Call(whisper_resume)
    \/ Call(whisper_check_results)
    \/ Call(whisper_get_results)
    \/ Call(whisper_start_input_timers)
    \/ Call(text_param_no_input_timeout)
    \/ Call(text_param_start_input_timers)
    \/ Call(text_param_partial)
    \/ Call(Tick)

Spec == Init /\ [][Next]_vars

(***************************************************************************)
(* C1.  whisper_get_results returns a final payload (SUCCESS) at most once *)
(* per utterance: between two runs of whisper_reset (whisper_resume, or    *)
(* the auto-resume of whisper_feed) at most one call returns SUCCESS.      *)
(* hist.finals counts the SUCCESS returns since the last whisper_reset.    *)
(***************************************************************************)
C1_OneFinalPerUtterance == hist.finals <= 1

(***************************************************************************)
(* The same host, which may also close the session (whisper_close, in its  *)
(* steps), load a grammar and set the speech timeout, the gate's           *)
(* parameters and the result text.                                         *)
(***************************************************************************)
NextClose ==
    \/ Call(feed_enter(BlockFrames))
    \/ feed_auto_resume
    \/ feed_test_timeout
    \/ sfb_write
    \/ sfb_wait
    \/ sfb_read(TextReads)
    \/ feed_load_flags
    \/ feed_tmo_set_result
    \/ feed_tmo_clear_timeout
    \/ feed_vad_process
    \/ feed_lock
    \/ feed_buffer
    \/ feed_poll
    \/ feed_read(TextReads)
    \/ feed_stop_set_result
    \/ feed_stop_clear_ready
    \/ feed_start_of_speech
    \/ Call(close_lock)
    \/ close_ws
    \/ close_buffer
    \/ close_unlock
    \/ close_return
    \/ Call(whisper_load_grammar)
    \/ Call(whisper_pause)
    \/ Call(whisper_resume)
    \/ Call(whisper_check_results)
    \/ Call(whisper_get_results)
    \/ Call(whisper_start_input_timers)
    \/ Call(text_param_speech_timeout)
    \/ Call(text_param_vad)
    \/ Call(text_param_result)
    \/ Call(Tick)

SpecClose == Init /\ [][NextClose]_vars

(***************************************************************************)
(* The media thread runs whisper_feed step by step while the control       *)
(* thread calls whisper_check_results, whisper_get_results and             *)
(* whisper_pause at any moment; whisper_resume is called between feeds.    *)
(* No time passes, so the timeouts do not fire.                            *)
(***************************************************************************)
NextConc ==
    \/ feed_enter(BlockFrames)
    \/ feed_auto_resume
    \/ feed_test_timeout
    \/ sfb_write
    \/ sfb_wait
    \/ sfb_read(TextReads)
    \/ feed_load_flags
    \/ feed_vad_process
    \/ feed_lock
    \/ feed_buffer
    \/ feed_poll
    \/ feed_read(TextReads)
    \/ feed_stop_set_result
    \/ feed_stop_clear_ready
    \/ feed_start_of_speech
    \/ whisper_check_results
    \/ whisper_get_results
    \/ whisper_pause
    \/ Call(whisper_resume)

SpecConc == Init /\ [][NextConc]_vars

(***************************************************************************)
(* The host of Spec, in a run that keeps the history of the timeouts and   *)
(* of the transport.                                                       *)
(***************************************************************************)
SpecHist == InitHist /\ [][Next]_vars

(***************************************************************************)
(* The host feeds frames of 1600 and of 3200 bytes, polls and fetches      *)
(* results and resumes, one call at a time; the backend sends text frames  *)
(* and pings.  The run keeps the history of the transport.                 *)
(***************************************************************************)
NextIO ==
    \/ Call(feed_enter(Frames))
    \/ feed_auto_resume
    \/ feed_test_timeout
    \/ sfb_write
    \/ sfb_wait
    \/ sfb_read(ReadResults)
    \/ feed_load_flags
    \/ feed_tmo_set_result
    \/ feed_tmo_clear_timeout
    \/ feed_vad_process
    \/ feed_lock
    \/ feed_buffer
    \/ feed_poll
    \/ feed_read(ReadResults)
    \/ feed_stop_set_result
    \/ feed_stop_clear_ready
    \/ feed_start_of_speech
    \/ Call(whisper_check_results)
    \/ Call(whisper_get_results)
    \/ Call(whisper_resume)
    \/ Call(Tick)

SpecIO == InitHist /\ [][NextIO]_vars

(***************************************************************************)
(* The host feeds frames, fetches results, turns partial deliveries on,    *)
(* resumes and closes the session, one call at a time; no time passes.     *)
(***************************************************************************)
NextFetch ==
    \/ Call(feed_enter(BlockFrames))
    \/ feed_auto_resume
    \/ feed_test_timeout
    \/ sfb_write
    \/ sfb_wait
    \/ sfb_read(TextReads)
    \/ feed_load_flags
    \/ feed_vad_process
    \/ feed_lock
    \/ feed_buffer
    \/ feed_poll
    \/ feed_read(TextReads)
    \/ feed_stop_set_result
    \/ feed_stop_clear_ready
    \/ feed_start_of_speech
    \/ Call(whisper_get_results)
    \/ Call(text_param_partial)
    \/ Call(whisper_resume)
    \/ Call(close_lock)
    \/ close_ws
    \/ close_buffer
    \/ close_unlock
    \/ close_return

SpecFetch == Init /\ [][NextFetch]_vars

(***************************************************************************)
(* The media thread runs whisper_feed step by step while the control       *)
(* thread runs whisper_close step by step; whisper_resume is called        *)
(* between feeds.  No time passes.                                         *)
(***************************************************************************)
NextRace ==
    \/ feed_enter(BlockFrames)
    \/ feed_auto_resume
    \/ feed_test_timeout
    \/ sfb_write
    \/ sfb_wait
    \/ sfb_read(TextReads)
    \/ feed_load_flags
    \/ feed_vad_process
    \/ feed_lock
    \/ feed_buffer
    \/ feed_poll
    \/ feed_read(TextReads)
    \/ feed_stop_set_result
    \/ feed_stop_clear_ready
    \/ feed_start_of_speech
    \/ close_lock
    \/ close_ws
    \/ close_buffer
    \/ close_unlock
    \/ close_return
    \/ Call(whisper_resume)

SpecRace == Init /\ [][NextRace]_vars

(***************************************************************************)
(* C2.  When whisper_reset has run (whisper_resume, or the auto-resume of  *)
(* whisper_feed), whatever the flags were before, the flags are those of a *)
(* freshly opened session: READY is set, INPUT_TIMERS is set exactly when  *)
(* start_input_timers is, and no other flag is set.  The flags after a     *)
(* reset are thus a function of start_input_timers alone, so a second      *)
(* reset leaves them as the first did.                                     *)
(***************************************************************************)
C2_ResetIsInitialState ==
    obs.reset =>
        /\ "READY" \in flags
        /\ "INPUT_TIMERS" \in flags <=> start_input_timers
        /\ flags \subseteq { "READY", "INPUT_TIMERS" }

\* whisper_feed has auto-resumed a session whose result was returned and
\* whose input timers are not started automatically
C2_Witness ==
    /\ obs.reset
    /\ mpc = "tmo"
    /\ "RETURNED_RESULT" \in m.flags0
    /\ ~start_input_timers

(***************************************************************************)
(* C6.  When whisper_feed returns, the media thread holds the session      *)
(* mutex as many times as it did when the call began.                      *)
(***************************************************************************)
C6_FeedReleasesLock ==
    obs.op = "feed" => Holds(mutex, "media") = obs.lock0

(***************************************************************************)
(* C9.  text_param partial=true sets the counter to 3.  A call of          *)
(* whisper_get_results with a result pending and the counter positive      *)
(* returns MORE_DATA with the result payload, decrements the counter and   *)
(* does not set RETURNED_RESULT; with the counter at zero or below it      *)
(* returns SUCCESS and sets RETURNED_RESULT.  Hence the first 3 calls      *)
(* after partial=true report more data and the 4th is final.               *)
(***************************************************************************)
C9_PartialsThenFinal ==
    [][ /\ obs'.param = "partial=true" => partial' = 3
        /\ ( /\ obs'.op = "get_results"
             /\ ~closed
             /\ "RESULT" \in flags
             /\ "RETURNED_RESULT" \notin flags )
           => /\ obs'.resultstr.kind = "result"
              /\ partial' = partial - 1
              /\ IF partial >= 1
                 THEN /\ obs'.status = "MORE_DATA"
                      /\ "RETURNED_RESULT" \notin flags'
                 ELSE /\ obs'.status = "SUCCESS"
                      /\ "RETURNED_RESULT" \in flags'
      ]_vars

\* the third partial delivery after partial=true
C9_Witness ==
    /\ obs.op = "get_results"
    /\ obs.status = "MORE_DATA"
    /\ partial = 0

(***************************************************************************)
(* C10.  While the no-input timeout is negative and START_OF_SPEECH is not *)
(* set, no step sets NOINPUT_TIMEOUT, and whisper_check_results does not   *)
(* report ready.                                                           *)
(***************************************************************************)
C10_DisabledNoInputNeverFires ==
    [][ ( /\ no_input_timeout < 0
          /\ no_input_timeout' < 0
          /\ "START_OF_SPEECH" \notin flags
          /\ "START_OF_SPEECH" \notin flags'
          /\ "NOINPUT_TIMEOUT" \notin flags )
        => /\ "NOINPUT_TIMEOUT" \notin flags'
           /\ obs'.op = "check_results" /\ "RESULT" \notin flags
                 => obs'.status # "SUCCESS"
      ]_vars

\* whisper_check_results ran with the timers armed, no speech, the clock
\* past the default no-input timeout and the timeout disabled
C10_Witness ==
    /\ obs.op = "check_results"
    /\ obs.status = "BREAK"
    /\ no_input_timeout < 0
    /\ "INPUT_TIMERS" \in flags
    /\ "START_OF_SPEECH" \notin flags
    /\ "READY" \in flags
    /\ ElapsedMs(no_input_time) >= DefaultNoInputTimeout

\* The speech clock has run out on an open session in which speech has
\* started and no end of speech has produced a result
C8_SpeechTimedOut ==
    /\ ~closed
    /\ "START_OF_SPEECH" \in flags
    /\ { "RESULT", "RETURNED_RESULT" } \cap flags = {}
    /\ speech_timeout > 0
    /\ ElapsedMs(speech_time) >= speech_timeout

\* a call of whisper_feed that began with TIMEOUT pending has returned
C8_FeedAfterTimeout ==
    /\ obs.op = "feed"
    /\ ~obs.closed0
    /\ "TIMEOUT" \in obs.flags0
    /\ "RETURNED_RESULT" \notin obs.flags0

\* whisper_get_results is called with a result pending and partial
\* deliveries off
C8_FetchFinal ==
    ( /\ obs'.op = "get_results"
      /\ ~closed
      /\ "RESULT" \in flags
      /\ "RETURNED_RESULT" \notin flags
      /\ partial <= 0 )
    => /\ obs'.status = "SUCCESS"
       /\ obs'.resultstr.kind = "result"
       /\ "RETURNED_RESULT" \in flags'

(***************************************************************************)
(* C8.  When the speech timeout is positive and has run out, speech has    *)
(* started and its start has been returned to the host                    *)
(* (RETURNED_START_OF_SPEECH), and neither a result, a no-input timeout    *)
(* nor a speech timeout is already pending, whisper_check_results sets     *)
(* TIMEOUT and returns FALSE.  The next whisper_feed sends the end marker  *)
(* and waits for one response; when that handshake succeeds it sets RESULT *)
(* and clears TIMEOUT, when it fails the call returns BREAK with the flags *)
(* as they were.  With RESULT pending and partial deliveries off,          *)
(* whisper_get_results then returns SUCCESS with the result payload.       *)
(***************************************************************************)
C8_SpeechTimeoutFinalises ==
    [][ /\ ( /\ obs'.op = "check_results"
             /\ C8_SpeechTimedOut
             /\ "RETURNED_START_OF_SPEECH" \in flags
             /\ { "NOINPUT_TIMEOUT", "TIMEOUT" } \cap flags = {} )
           => /\ flags' = flags \cup { "TIMEOUT" }
              /\ obs'.status = "FALSE"
        /\ C8_FeedAfterTimeout'
           => \/ /\ obs'.status = "BREAK"
                 /\ flags' = obs'.flags0
              \/ /\ obs'.sent # << >>
                 /\ obs'.sent[1] = EofFrame
                 /\ "RESULT" \in flags'
                 /\ "TIMEOUT" \notin flags'
        /\ C8_FetchFinal
      ]_vars

\* whisper_feed has completed the handshake that a speech timeout asked for
C8_Witness ==
    /\ C8_FeedAfterTimeout
    /\ obs.status = "SUCCESS"
    /\ obs.sent # << >>
    /\ "RESULT" \in flags
    /\ "TIMEOUT" \notin flags

\* C8 as the specification words it: every whisper_check_results after the
\* timeout has run out sets TIMEOUT and returns FALSE, and every
\* whisper_feed after it sets RESULT and clears TIMEOUT
C8_AsStated ==
    [][ /\ (obs'.op = "check_results" /\ C8_SpeechTimedOut)
           => /\ "TIMEOUT" \in flags'
              /\ obs'.status = "FALSE"
        /\ C8_FeedAfterTimeout'
           => /\ obs'.sent # << >>
              /\ "RESULT" \in flags'
              /\ "TIMEOUT" \notin flags'
        /\ C8_FetchFinal
      ]_vars

(***************************************************************************)
(* C3.  While whisper_close runs on a session that was closed when it was  *)
(* called, no step of it acts on the transport connection or the audio     *)
(* buffer, and it returns FALSE.                                           *)
(***************************************************************************)
C3_SecondCloseTouchesNothing ==
    /\ (cpc # "idle" /\ c.closed0) => obs.access = {}
    /\ (obs.op = "close" /\ obs.closed0) =>
            obs.status = "FALSE" /\ obs.access = {}

(***************************************************************************)
(* C4.  When whisper_close returns from a call on a session that was not   *)
(* closed, it returns SUCCESS, the session is closed, and the transport    *)
(* connection, the audio buffer and the gate have been released.           *)
(***************************************************************************)
C4_CloseReleasesAll ==
    (obs.op = "close" /\ ~obs.closed0) =>
        /\ obs.status = "SUCCESS"
        /\ closed
        /\ ws = "NULL"
        /\ audio_buffer = "NULL"
        /\ vad = "NULL"

(***************************************************************************)
(* C5.  Every step of a call that began on a closed session leaves the     *)
(* transport connection, the audio buffer and the gate alone, and every    *)
(* entry point that returns a status returns FALSE or BREAK.               *)
(***************************************************************************)
C5_ClosedFailsFast ==
    [][ ( \/ closed /\ mpc = "idle" /\ cpc = "idle"
          \/ cpc # "idle" /\ c.closed0 )
        => /\ obs'.access = {}
           /\ obs'.op \notin { "none", "text_param" }
                 => obs'.status \in { "FALSE", "BREAK" }
      ]_vars

\* The flags a call of whisper_feed can leave when it runs alone from the
\* flags f: after the auto-resume and the handshake of a pending TIMEOUT,
\* the gate's verdict leaves them alone, ends the utterance or starts one
C7_FeedOutcomes(f) ==
    LET f1 == IF "RETURNED_RESULT" \in f /\ auto_resume
              THEN ResetFlags(start_input_timers) ELSE f
        f2 == IF "TIMEOUT" \in f1
              THEN (f1 \cup { "RESULT" }) \ { "TIMEOUT" } ELSE f1
    IN  IF closed THEN { f }
        ELSE { f1, f2 } \cup
             ( IF "READY" \in f2
               THEN { (f2 \cup { "RESULT" }) \ { "READY" },
                      f2 \cup { "START_OF_SPEECH" } }
               ELSE {} )

\* The flags a call of the control thread leaves when it runs from f
C7_ControlOutcome(op, f) ==
    CASE op = "check_results" -> CheckResults(f).flags
      [] op = "get_results" -> GetResults(f, partial).flags
      [] op = "pause" -> {}

(***************************************************************************)
(* C7.  When whisper_feed returns and one call of whisper_check_results,   *)
(* whisper_get_results or whisper_pause ran on the control thread while it *)
(* was running, the flags are those of the two calls run one after the     *)
(* other, in one order or the other, from the flags at the start of the    *)
(* feed.                                                                   *)
(***************************************************************************)
C7_FeedSerialisable ==
    ( /\ obs.op = "feed"
      /\ Len(hist.ops) = 1
      /\ hist.ops[1] \in { "check_results", "get_results", "pause" } )
    => \/ flags \in C7_FeedOutcomes(C7_ControlOutcome(hist.ops[1], obs.flags0))
       \/ \E g \in C7_FeedOutcomes(obs.flags0) :
             flags = C7_ControlOutcome(hist.ops[1], g)

\* whisper_feed run alone leaves one of the flag sets of C7_FeedOutcomes
C7_FeedAlone ==
    (obs.op = "feed" /\ hist.ops = << >>) =>
        flags \in C7_FeedOutcomes(obs.flags0)

(***************************************************************************)
(* C11.  On an open session that has returned no result, with INPUT_TIMERS *)
(* set, START_OF_SPEECH clear (only silence was fed) and a no-input        *)
(* timeout T >= 0, once more than T milliseconds have passed since         *)
(* no_input_time whisper_check_results sets NOINPUT_TIMEOUT and returns    *)
(* SUCCESS.  With NOINPUT_TIMEOUT set and still no speech,                 *)
(* whisper_get_results returns SUCCESS with the no-input payload (empty    *)
(* text, confidence 0, error "no_input"), sets RETURNED_RESULT and clears  *)
(* READY.                                                                  *)
(***************************************************************************)
C11_NoInputOutcome ==
    [][ /\ ( /\ obs'.op = "check_results"
             /\ ~closed
             /\ "RETURNED_RESULT" \notin flags
             /\ "INPUT_TIMERS" \in flags
             /\ "START_OF_SPEECH" \notin flags
             /\ no_input_timeout >= 0
             /\ ElapsedMs(no_input_time) > no_input_timeout )
           => /\ "NOINPUT_TIMEOUT" \in flags'
              /\ obs'.status = "SUCCESS"
        /\ ( /\ obs'.op = "get_results"
             /\ ~closed
             /\ "RETURNED_RESULT" \notin flags
             /\ "NOINPUT_TIMEOUT" \in flags
             /\ "START_OF_SPEECH" \notin flags )
           => /\ obs'.status = "SUCCESS"
              /\ obs'.resultstr.text = ""
              /\ obs'.resultstr.confidence = 0
              /\ obs'.resultstr.error = "no_input"
              /\ "RETURNED_RESULT" \in flags'
              /\ "READY" \notin flags'
      ]_vars

\* the no-input outcome has been delivered after a feed of silence and a
\* whisper_check_results that found the clock run out
C11_Witness ==
    /\ obs.op = "get_results"
    /\ obs.status = "SUCCESS"
    /\ obs.resultstr.error = "no_input"
    /\ "START_OF_SPEECH" \notin flags
    /\ "RETURNED_RESULT" \in flags
    /\ vad = "NONE"
    /\ ElapsedMs(no_input_time) > no_input_timeout

(***************************************************************************)
(* C12.  RESULT and NOINPUT_TIMEOUT are never both set.                    *)
(***************************************************************************)
C12_OneOutcome == ~({ "RESULT", "NOINPUT_TIMEOUT" } \subseteq flags)

(***************************************************************************)
(* C13.  A call of whisper_feed in which kws_write_frame, kws_wait_sock or *)
(* kws_read_frame reports an error returns BREAK, and the call of          *)
(* whisper_feed that follows it sends no frame.                            *)
(***************************************************************************)
C13_TransportErrorStopsFeed ==
    /\ (obs.op = "feed" /\ obs.io.res = "error") => obs.status = "BREAK"
    /\ (mpc # "idle" /\ m.after_fail) => m.sent = << >>

\* the wait of the handshake ends with nothing to read
C14_GiveUp == sfb_wait /\ obs'.io.res = "timeout"

(***************************************************************************)
(* C14.  While whisper_feed waits for the answer to the end marker         *)
(* (whisper_send_final_bit, called on STOP_TALKING or on a pending speech  *)
(* timeout) the wait can end with nothing to read, and when it does the    *)
(* call returns BREAK at that step and leaves the flags as they were, so   *)
(* it does not set RESULT.                                                 *)
(***************************************************************************)
C14_HandshakeTimeoutFails ==
    [][ /\ mpc = "sfb_wait" => ENABLED C14_GiveUp
        /\ (mpc = "sfb_wait" /\ obs'.io.res = "timeout")
           => /\ mpc' = "idle"
              /\ obs'.op = "feed"
              /\ obs'.status = "BREAK"
              /\ flags' = flags
      ]_vars

\* the handshake of a pending speech timeout was given up: the end marker
\* was sent, the wait ended with nothing to read
C14_Witness ==
    /\ obs.op = "feed"
    /\ obs.io.call = "wait"
    /\ obs.io.res = "timeout"
    /\ obs.status = "BREAK"
    /\ obs.sent = << EofFrame >>
    /\ "TIMEOUT" \in obs.flags0
    /\ "RESULT" \notin flags

\* the pongs among the frames snt
C15_Pongs(snt) == SelectSeq(snt, LAMBDA fr : fr.oc = "PONG")

(***************************************************************************)
(* C15.  When the poll of a TALKING frame reads a ping, whisper_feed       *)
(* returns SUCCESS having sent exactly one pong, whose payload is the      *)
(* ping's, and the flags and result_text are as they were when the call    *)
(* began.                                                                  *)
(***************************************************************************)
C15_PingAnswered ==
    ( /\ obs.op = "feed"
      /\ obs.io.call = "read"
      /\ obs.io.frame.oc = "PING" )
    => /\ obs.status = "SUCCESS"
       /\ C15_Pongs(obs.sent) =
             << [oc |-> "PONG", data |-> obs.io.frame.data] >>
       /\ obs.sent[Len(obs.sent)].oc = "PONG"
       /\ flags = obs.flags0
       /\ result_text = obs.text0

\* a TALKING feed that sent an audio block read a ping and answered it
C15_Witness ==
    /\ obs.op = "feed"
    /\ obs.io.call = "read"
    /\ obs.io.frame.oc = "PING"
    /\ Len(obs.sent) = 2
    /\ obs.sent[1].oc = "BINARY"
    /\ obs.sent[2] = [oc |-> "PONG", data |-> PingPayload]
    /\ result_text = "hello"

\* the frames sent so far by the call that took the last step
C16_SentSoFar == IF obs.op = "feed" THEN obs.sent ELSE m.sent

(***************************************************************************)
(* C16.  Whenever kws_read_frame returns a ping, in the poll of a TALKING  *)
(* frame or in the handshake of whisper_send_final_bit, the step answers   *)
(* with a pong that carries the ping's payload, and the payload does not   *)
(* become result_text.                                                     *)
(***************************************************************************)
C16_PingNeverTranscript ==
    obs.io.frame.oc = "PING" =>
        /\ C16_SentSoFar # << >>
        /\ C16_SentSoFar[Len(C16_SentSoFar)] =
              [oc |-> "PONG", data |-> obs.io.frame.data]
        /\ result_text # obs.io.frame.data

\* The bytes of the runs b, oldest first, one tag for every 1600 bytes (the
\* frames and the block are multiples of 1600 bytes)
RECURSIVE C17_Bytes(_)
C17_Bytes(b) ==
    IF b = << >> THEN << >>
    ELSE [i \in 1..(b[1][2] \div (AUDIO_BLOCK_SIZE \div 2)) |-> b[1][1]]
         \o C17_Bytes(Tail(b))

\* the audio blocks among the frames snt
C17_Blocks(snt) == SelectSeq(snt, LAMBDA fr : fr.oc = "BINARY")

(***************************************************************************)
(* C17.  A call of whisper_feed sends at most one audio block.  The step   *)
(* of a TALKING frame that writes the frame to the buffer sends a block    *)
(* only when the buffer then holds more than 3200 bytes; the block is the  *)
(* oldest 3200 bytes, in the order they were fed, and the younger bytes    *)
(* stay in the buffer in their order.  Otherwise it sends nothing and the  *)
(* buffer holds the old bytes followed by the frame.                       *)
(***************************************************************************)
C17_OneOldestBlock ==
    [][ /\ Len(C17_Blocks(IF obs'.op = "feed" THEN obs'.sent ELSE m'.sent)) <= 1
        /\ (mpc = "t_buf" /\ audio_buffer # "NULL")
           => LET all == C17_Bytes(audio_buffer) \o C17_Bytes(<< m.data >>)
              IN  IF Len(all) > 2
                  THEN /\ C17_Bytes(audio_buffer') = SubSeq(all, 3, Len(all))
                       /\ \/ obs'.op = "feed" /\ obs'.io.res = "error"
                          \/ /\ Len(m'.sent) = Len(m.sent) + 1
                             /\ m'.sent[Len(m'.sent)].oc = "BINARY"
                             /\ C17_Bytes(m'.sent[Len(m'.sent)].data) =
                                   SubSeq(all, 1, 2)
                  ELSE /\ C17_Bytes(audio_buffer') = all
                       /\ m'.sent = m.sent
                       /\ mpc' = "t_poll"
      ]_vars

\* a block made of a frame of 1600 bytes and the first half of a frame of
\* 3200 bytes was sent, and the second half stays in the buffer
C17_Witness ==
    /\ mpc = "t_poll"
    /\ obs.io.call = "write"
    /\ m.sent = << BinaryFrame(<< << "a", 1600 >>, << "b", 1600 >> >>) >>
    /\ audio_buffer = << << "b", 1600 >> >>

(***************************************************************************)
(* C18.  NOINPUT_TIMEOUT and TIMEOUT are each set at most once between two *)
(* runs of whisper_reset: a step that sets one of them finds that it has   *)
(* not been set since the last whisper_reset (hist.fired).                 *)
(***************************************************************************)
C18_TimeoutsFireOnce ==
    [][ \A t \in { "NOINPUT_TIMEOUT", "TIMEOUT" } :
           (t \notin flags /\ t \in flags') => t \notin hist.fired
      ]_vars

\* whisper_get_results is called out of order: the result was returned
\* already, the session is closed, or there is nothing to deliver
C19_OutOfOrder ==
    \/ "RETURNED_RESULT" \in flags
    \/ closed
    \/ /\ { "RESULT", "NOINPUT_TIMEOUT" } \cap flags = {}
       /\ ~( "START_OF_SPEECH" \in flags
             /\ "RETURNED_START_OF_SPEECH" \notin flags )

(***************************************************************************)
(* C19.  whisper_get_results called out of order returns FALSE, writes no  *)
(* payload, and leaves the flags and context->partial as they were.        *)
(***************************************************************************)
C19_OutOfOrderFetchFails ==
    [][ (obs'.op = "get_results" /\ C19_OutOfOrder)
        => /\ obs'.status = "FALSE"
           /\ obs'.resultstr = NoPayload
           /\ flags' = flags
           /\ partial' = partial
      ]_vars

\* a second fetch after the final one, with partial deliveries on, was
\* refused
C19_Witness ==
    /\ obs.op = "get_results"
    /\ obs.status = "FALSE"
    /\ ~closed
    /\ "RETURNED_RESULT" \in flags
    /\ "RESULT" \in flags
    /\ partial = PartialCount

(***************************************************************************)
(* C20.  No step of whisper_feed on the media thread touches the audio     *)
(* buffer or the connection after whisper_close has destroyed it.          *)
(***************************************************************************)
C20_FeedNeverUsesReleased ==
    obs.thread = "media"
    => /\ "buf" \in obs.access => audio_buffer # "NULL"
       /\ "ws" \in obs.access => ws # "NULL"

(***************************************************************************)
(* C21.  Every switch_mutex_unlock of context->mutex is run by a thread    *)
(* that holds the mutex: no step of whisper_feed, the handshake of         *)
(* whisper_send_final_bit included, unlocks a mutex the media thread does  *)
(* not hold.                                                               *)
(***************************************************************************)
C21_UnlockByHolder == ~obs.bad_unlock

\* the step writes the eof marker of whisper_send_final_bit (line 270)
C22_SendsEof == mpc = "sfb_write" /\ mpc' = "sfb_wait"

\* the step writes a block of audio (line 357)
C22_SendsAudio == mpc = "t_buf" /\ mpc' = "t_poll" /\ Len(m'.sent) > Len(m.sent)

(***************************************************************************)
(* C22.  Between two runs of whisper_reset the eof marker is sent at most  *)
(* once, and no block of audio is sent after it: a step that sends the     *)
(* marker or a block finds that no marker was sent since the last          *)
(* whisper_reset (hist.eof).                                               *)
(***************************************************************************)
C22_OneMarkerPerUtterance ==
    [][ (C22_SendsEof \/ C22_SendsAudio) => ~hist.eof ]_vars

(***************************************************************************)
(* C23.  When the eof marker of whisper_send_final_bit is written the      *)
(* audio buffer is empty: every byte buffered from the TALKING frames has  *)
(* been sent, and none is left for the utterance after whisper_reset.      *)
(***************************************************************************)
C23_MarkerOnEmptyBuffer ==
    [][ (mpc = "sfb_write" /\ obs'.access = {"ws"} /\ Len(m'.sent) > Len(m.sent))
        => audio_buffer = << >>
      ]_vars

=============================================================================
